---- MODULE Spec2Model ----
(***************************************************************************)
(* State-machine model of the four lock classes of typescript-locks:       *)
(*   QueueLock and SemaphoreLock (src/src/queueLock.ts),                   *)
(*   ReadWriteLock (src/src/readWriteLock.ts),                             *)
(*   SimpleLock (src/src/simpleLock.ts).                                   *)
(* JavaScript runs every handler to completion, so one action is one       *)
(* synchronous run: an acquire() call (the Promise executor and its        *)
(* tryAcquire), an invocation of a release closure (with the tryAcquire of *)
(* the waiter it shifts off the queue), a timer expiry, or the microtask   *)
(* that resumes a caller after its await.                                  *)
(* The four classes share no state; each has its own specification.        *)
(***************************************************************************)
EXTENDS Integers, Sequences, FiniteSets

\* ---------------------------------------------------------------- bounds
NumQCallers == 4
NumSemCallers == 3
NumRWCallers == 4
NumSLCallers == 3
MaxPermits == 2

QCallers == 1..NumQCallers
SemCallers == 1..NumSemCallers
RWCallers == 1..NumRWCallers
SLCallers == 1..NumSLCallers

VARIABLES
    \* QueueLock
    qlLocked,      \* QueueLock.locked
    qlQueue,       \* QueueLock.queue: the queued tryAcquire closures, by caller
    qlPc,          \* position of each caller of QueueLock.acquire
    qlCalls,       \* the outstanding acquire() calls, oldest first
    qlWaited,      \* callers whose outstanding call was pushed on the queue
    qlReleases,    \* some release closure has been invoked already
    \* SemaphoreLock
    semStatus,     \* "none" before new SemaphoreLock(v), then "ok" or "threw"
    semArg,        \* the value passed to the constructor
    semPermits,    \* SemaphoreLock.permits
    semQueue,      \* SemaphoreLock.queue
    semPc,         \* position of each caller of SemaphoreLock.acquire
    semCalls,      \* the outstanding acquire() calls, oldest first
    semWaited,     \* callers whose outstanding call was pushed on the queue
    semReleases,   \* whether a release closure has been invoked yet
    \* ReadWriteLock
    readers,       \* ReadWriteLock.readers
    writer,        \* ReadWriteLock.writer
    readQueue,     \* ReadWriteLock.readQueue
    writeQueue,    \* ReadWriteLock.writeQueue
    rwPc,          \* position of each caller
    rwMode,        \* "read" or "write": the kind of its outstanding call
    rwWaited,      \* callers whose outstanding call was pushed on a queue
    rwSpin,        \* releaseWrite()'s while loop ran out of its budget
    rwWriteCalls,  \* outstanding acquireWrite() calls, in call order
    \* SimpleLock
    slLocked,      \* SimpleLock.locked
    slPc,          \* position of each caller of SimpleLock.acquire
    slSlept,       \* callers that slept at least once in their current acquire
    slCalls        \* the outstanding acquire() calls, oldest first

qlVars == <<qlLocked, qlQueue, qlPc, qlCalls, qlWaited, qlReleases>>
semVars == <<semStatus, semArg, semPermits, semQueue, semPc, semCalls,
             semWaited, semReleases>>
rwVars == <<readers, writer, readQueue, writeQueue, rwPc, rwMode, rwWaited,
           rwSpin, rwWriteCalls>>
slVars == <<slLocked, slPc, slSlept, slCalls>>
vars == <<qlVars, semVars, rwVars, slVars>>

\* A caller is "idle" (no outstanding call), "waiting" (its promise is
\* pending), "granted" (resolve was called with its release closure) or
\* "holding" (its await has resumed and it owns the closure).
Remove(seq, t) == SelectSeq(seq, LAMBDA x : x # t)
Granted(pc, t) == pc[t] \in {"granted", "holding"}

\* ------------------------------------------------------------- QueueLock
QLInit ==
    /\ qlLocked = FALSE
    /\ qlQueue = <<>>
    /\ qlPc = [t \in QCallers |-> "idle"]
    /\ qlCalls = <<>>
    /\ qlWaited = {}
    /\ qlReleases = FALSE

QLCfg == [locked |-> qlLocked, queue |-> qlQueue, pc |-> qlPc, waited |-> qlWaited]

QLSet(c) ==
    /\ qlLocked' = c.locked
    /\ qlQueue' = c.queue
    /\ qlPc' = c.pc
    /\ qlWaited' = c.waited

\* Faulty variant: the flag is never set, so the lock looks free to the next caller.
QLTryAcquireNoSet(c, t) ==
    IF ~c.locked
    THEN [c EXCEPT !.pc[t] = "granted"]
    ELSE [c EXCEPT !.queue = Append(@, t), !.waited = @ \cup {t}]

\* Faulty variant: a blocked request is put at the front of the queue (unshift).
QLTryAcquireUnshift(c, t) ==
    IF ~c.locked
    THEN [c EXCEPT !.locked = TRUE, !.pc[t] = "granted"]
    ELSE [c EXCEPT !.queue = <<t>> \o @, !.waited = @ \cup {t}]

\* tryAcquire of caller t's acquire() call.
QLTryAcquire(c, t) ==
    IF ~c.locked
    THEN [c EXCEPT !.locked = TRUE, !.pc[t] = "granted"]
    ELSE [c EXCEPT !.queue = Append(@, t), !.waited = @ \cup {t}]

\* Faulty variant: the closure serves the newest waiter (pop instead of shift).
QLReleaseFnPop(c) ==
    LET c1 == [c EXCEPT !.locked = FALSE] IN
    IF Len(c1.queue) > 0
    THEN QLTryAcquire([c1 EXCEPT !.queue = SubSeq(@, 1, Len(@) - 1)],
                      c1.queue[Len(c1.queue)])
    ELSE c1

\* Faulty variant: the closure frees the lock and leaves the waiter queued.
QLReleaseFnNoServe(c) == [c EXCEPT !.locked = FALSE]

\* The release closure handed to resolve().
QLReleaseFn(c) ==
    LET c1 == [c EXCEPT !.locked = FALSE] IN
    IF Len(c1.queue) > 0
    THEN QLTryAcquire([c1 EXCEPT !.queue = Tail(@)], Head(c1.queue))
    ELSE c1

QLOthers == UNCHANGED <<semVars, rwVars, slVars>>

\* Caller t calls acquire(): the executor runs tryAcquire at once.
QLAcquire(t) ==
    /\ qlPc[t] = "idle"
    /\ QLSet(QLTryAcquire([QLCfg EXCEPT !.pc[t] = "waiting"], t))
    /\ qlCalls' = Append(qlCalls, t)
    /\ UNCHANGED qlReleases
    /\ QLOthers

\* The microtask that resumes "const release = await lock.acquire()".
QLResume(t) ==
    /\ qlPc[t] = "granted"
    /\ qlPc' = [qlPc EXCEPT ![t] = "holding"]
    /\ UNCHANGED <<qlLocked, qlQueue, qlCalls, qlWaited, qlReleases>>
    /\ QLOthers

\* Caller t invokes its release closure, once.
QLRelease(t) ==
    /\ qlPc[t] = "holding"
    /\ QLSet(QLReleaseFn([QLCfg EXCEPT !.pc[t] = "idle", !.waited = @ \ {t}]))
    /\ qlCalls' = Remove(qlCalls, t)
    /\ qlReleases' = TRUE
    /\ QLOthers

\* Faulty variant: the closure remembers that it ran and ignores a second call.
QLReleaseFnOnce(c) == c

\* A release closure invoked a second time: the same function body runs.
QLReleaseFnAgain(c) == QLReleaseFn(c)

\* Some caller invokes, once more, a closure that was invoked before.
QLReleaseAgain ==
    /\ qlReleases
    /\ QLSet(QLReleaseFnAgain(QLCfg))
    /\ UNCHANGED <<qlCalls, qlReleases>>
    /\ QLOthers

QLNext == \E t \in QCallers : QLAcquire(t) \/ QLResume(t) \/ QLRelease(t)


\* --------------------------------------------------------- SemaphoreLock
\* A JavaScript number passed to the constructor, as the fraction num/den.
ArgValues ==
    {v \in [num : -2..(2 * MaxPermits + 1), den : {1, 2}] :
        v.num < (MaxPermits + 1) * v.den}

\* Number.isInteger(v)
NumberIsInteger(v) == v.num % v.den = 0
\* v < n
NumberLess(v, n) == v.num < n * v.den
\* the integer an integral v is
NumberValue(v) == v.num \div v.den

SemInit ==
    /\ semStatus = "none"
    /\ semArg = [num |-> 0, den |-> 1]
    /\ semPermits = 0
    /\ semQueue = <<>>
    /\ semPc = [t \in SemCallers |-> "idle"]
    /\ semCalls = <<>>
    /\ semWaited = {}
    /\ semReleases = FALSE

\* Faulty variant: only the range is tested, not Number.isInteger.
SemConstructorNoIntegerTest(v) ==
    IF NumberLess(v, 1)
    THEN [status |-> "threw", permits |-> 0]
    ELSE [status |-> "ok", permits |-> NumberValue(v)]

\* new SemaphoreLock(v): throws, or yields an instance with permits = v.
SemConstructor(v) ==
    IF ~NumberIsInteger(v) \/ NumberLess(v, 1)
    THEN [status |-> "threw", permits |-> 0]
    ELSE [status |-> "ok", permits |-> NumberValue(v)]

SemCfg == [permits |-> semPermits, queue |-> semQueue, pc |-> semPc,
           waited |-> semWaited]

SemSet(c) ==
    /\ semPermits' = c.permits
    /\ semQueue' = c.queue
    /\ semPc' = c.pc
    /\ semWaited' = c.waited

\* Faulty variant: a grant does not take a permit.
SemTryAcquireNoDecrement(c, t) ==
    IF c.permits > 0
    THEN [c EXCEPT !.pc[t] = "granted"]
    ELSE [c EXCEPT !.queue = Append(@, t), !.waited = @ \cup {t}]

\* Faulty variant: off by one in the permit test.
SemTryAcquireOffByOne(c, t) ==
    IF c.permits >= 0
    THEN [c EXCEPT !.permits = @ - 1, !.pc[t] = "granted"]
    ELSE [c EXCEPT !.queue = Append(@, t), !.waited = @ \cup {t}]

\* Faulty variant: a blocked request is put at the front of the queue (unshift).
SemTryAcquireUnshift(c, t) ==
    IF c.permits > 0
    THEN [c EXCEPT !.permits = @ - 1, !.pc[t] = "granted"]
    ELSE [c EXCEPT !.queue = <<t>> \o @, !.waited = @ \cup {t}]

\* tryAcquire of caller t's acquire() call.
SemTryAcquire(c, t) ==
    IF c.permits > 0
    THEN [c EXCEPT !.permits = @ - 1, !.pc[t] = "granted"]
    ELSE [c EXCEPT !.queue = Append(@, t), !.waited = @ \cup {t}]

\* Faulty variant: the permit is returned but the next waiter is not served.
SemReleaseFnNoServe(c) == [c EXCEPT !.permits = @ + 1]

\* SemaphoreLock.release(), which every release closure calls.
SemReleaseFn(c) ==
    LET c1 == [c EXCEPT !.permits = @ + 1] IN
    IF Len(c1.queue) > 0
    THEN SemTryAcquire([c1 EXCEPT !.queue = Tail(@)], Head(c1.queue))
    ELSE c1

SemOthers == UNCHANGED <<qlVars, rwVars, slVars>>

\* const semaphore = new SemaphoreLock(v)
SemConstruct(v) ==
    /\ semStatus = "none"
    /\ semArg' = v
    /\ semStatus' = SemConstructor(v).status
    /\ semPermits' = SemConstructor(v).permits
    /\ UNCHANGED <<semQueue, semPc, semCalls, semWaited, semReleases>>
    /\ SemOthers

\* Caller t calls acquire() on the constructed instance.
SemAcquire(t) ==
    /\ semStatus = "ok"
    /\ semPc[t] = "idle"
    /\ SemSet(SemTryAcquire([SemCfg EXCEPT !.pc[t] = "waiting"], t))
    /\ semCalls' = Append(semCalls, t)
    /\ UNCHANGED <<semStatus, semArg, semReleases>>
    /\ SemOthers

\* The microtask that resumes "const release = await semaphore.acquire()".
SemResume(t) ==
    /\ semPc[t] = "granted"
    /\ semPc' = [semPc EXCEPT ![t] = "holding"]
    /\ UNCHANGED <<semStatus, semArg, semPermits, semQueue, semCalls,
                   semWaited, semReleases>>
    /\ SemOthers

\* Caller t invokes its release closure, once.
SemRelease(t) ==
    /\ semPc[t] = "holding"
    /\ SemSet(SemReleaseFn([SemCfg EXCEPT !.pc[t] = "idle", !.waited = @ \ {t}]))
    /\ semCalls' = Remove(semCalls, t)
    /\ semReleases' = TRUE
    /\ UNCHANGED <<semStatus, semArg>>
    /\ SemOthers

SemNext ==
    \/ \E v \in ArgValues : SemConstruct(v)
    \/ \E t \in SemCallers : SemAcquire(t) \/ SemResume(t) \/ SemRelease(t)


\* --------------------------------------------------------- ReadWriteLock
RWInit ==
    /\ readers = 0
    /\ writer = FALSE
    /\ readQueue = <<>>
    /\ writeQueue = <<>>
    /\ rwPc = [t \in RWCallers |-> "idle"]
    /\ rwMode = [t \in RWCallers |-> "none"]
    /\ rwWaited = {}
    /\ rwSpin = FALSE
    /\ rwWriteCalls = <<>>

RWCfg == [readers |-> readers, writer |-> writer, readQueue |-> readQueue,
          writeQueue |-> writeQueue, pc |-> rwPc, waited |-> rwWaited,
          spin |-> rwSpin]

RWSet(c) ==
    /\ readers' = c.readers
    /\ writer' = c.writer
    /\ readQueue' = c.readQueue
    /\ writeQueue' = c.writeQueue
    /\ rwPc' = c.pc
    /\ rwWaited' = c.waited
    /\ rwSpin' = c.spin

\* Faulty variant: a read is let in whenever no writer is active (no writer preference).
RWTryAcquireReadNoPreference(c, t) ==
    IF ~c.writer
    THEN [c EXCEPT !.readers = @ + 1, !.pc[t] = "granted"]
    ELSE [c EXCEPT !.readQueue = Append(@, t), !.waited = @ \cup {t}]

\* Faulty variant: a read is let in only when no other reader is active.
RWTryAcquireReadExclusive(c, t) ==
    IF ~c.writer /\ Len(c.writeQueue) = 0 /\ c.readers = 0
    THEN [c EXCEPT !.readers = @ + 1, !.pc[t] = "granted"]
    ELSE [c EXCEPT !.readQueue = Append(@, t), !.waited = @ \cup {t}]

\* tryAcquire of caller t's acquireRead() call.
RWTryAcquireRead(c, t) ==
    IF ~c.writer /\ Len(c.writeQueue) = 0
    THEN [c EXCEPT !.readers = @ + 1, !.pc[t] = "granted"]
    ELSE [c EXCEPT !.readQueue = Append(@, t), !.waited = @ \cup {t}]

\* Faulty variant: a write is let in whenever no writer is active, readers or not.
RWTryAcquireWriteIgnoreReaders(c, t) ==
    IF ~c.writer
    THEN [c EXCEPT !.writer = TRUE, !.pc[t] = "granted"]
    ELSE [c EXCEPT !.writeQueue = Append(@, t), !.waited = @ \cup {t}]

\* Faulty variant: a blocked write is put at the front of the write queue.
RWTryAcquireWriteUnshift(c, t) ==
    IF ~c.writer /\ c.readers = 0
    THEN [c EXCEPT !.writer = TRUE, !.pc[t] = "granted"]
    ELSE [c EXCEPT !.writeQueue = <<t>> \o @, !.waited = @ \cup {t}]

\* tryAcquire of caller t's acquireWrite() call.
RWTryAcquireWrite(c, t) ==
    IF ~c.writer /\ c.readers = 0
    THEN [c EXCEPT !.writer = TRUE, !.pc[t] = "granted"]
    ELSE [c EXCEPT !.writeQueue = Append(@, t), !.waited = @ \cup {t}]

\* Faulty variant: the last reader leaves without waking the queued writer.
RWReleaseReadNoServe(c) == [c EXCEPT !.readers = @ - 1]

\* ReadWriteLock.releaseRead()
RWReleaseRead(c) ==
    LET c1 == [c EXCEPT !.readers = @ - 1] IN
    IF c1.readers = 0 /\ Len(c1.writeQueue) > 0
    THEN RWTryAcquireWrite([c1 EXCEPT !.writeQueue = Tail(@)], Head(c1.writeQueue))
    ELSE c1

\* Iterations after which a run of the while loop counts as not ending
\* (a queue holds at most one entry per caller).
WakeBudget == 2 * NumRWCallers

\* The loop of releaseWrite(): while (readQueue.length > 0) { shift; next() },
\* with n iterations left.
RECURSIVE RWWakeLoop(_, _)
RWWakeLoop(c, n) ==
    IF Len(c.readQueue) > 0
    THEN IF n = 0
         THEN [c EXCEPT !.spin = TRUE]
         ELSE RWWakeLoop(RWTryAcquireRead([c EXCEPT !.readQueue = Tail(@)],
                                          Head(c.readQueue)), n - 1)
    ELSE c

RWWakeReaders(c) == RWWakeLoop(c, WakeBudget)

\* Faulty variant: "if" for "while" - only the first queued reader is woken.
RWReleaseWriteWakeOne(c) ==
    LET c1 == [c EXCEPT !.writer = FALSE] IN
    IF Len(c1.writeQueue) > 0
    THEN RWTryAcquireWrite([c1 EXCEPT !.writeQueue = Tail(@)], Head(c1.writeQueue))
    ELSE IF Len(c1.readQueue) > 0
         THEN RWTryAcquireRead([c1 EXCEPT !.readQueue = Tail(@)],
                               Head(c1.readQueue))
         ELSE c1

\* Faulty variant: queued readers are resolved first, whatever writers wait.
RECURSIVE RWGrantReaders(_)
RWGrantReaders(c) ==
    IF Len(c.readQueue) > 0
    THEN RWGrantReaders([c EXCEPT !.readQueue = Tail(@),
                                  !.readers = @ + 1,
                                  !.pc[Head(c.readQueue)] = "granted"])
    ELSE c

RWReleaseWriteReadersFirst(c) ==
    LET c1 == [c EXCEPT !.writer = FALSE] IN
    IF Len(c1.readQueue) > 0
    THEN RWGrantReaders(c1)
    ELSE IF Len(c1.writeQueue) > 0
         THEN RWTryAcquireWrite([c1 EXCEPT !.writeQueue = Tail(@)],
                                Head(c1.writeQueue))
         ELSE c1

\* ReadWriteLock.releaseWrite()
RWReleaseWrite(c) ==
    LET c1 == [c EXCEPT !.writer = FALSE] IN
    IF Len(c1.writeQueue) > 0
    THEN RWTryAcquireWrite([c1 EXCEPT !.writeQueue = Tail(@)], Head(c1.writeQueue))
    ELSE RWWakeReaders(c1)

RWOthers == UNCHANGED <<qlVars, semVars, slVars>>

\* Caller t calls acquireRead().
RWAcquireRead(t) ==
    /\ ~rwSpin
    /\ rwPc[t] = "idle"
    /\ RWSet(RWTryAcquireRead([RWCfg EXCEPT !.pc[t] = "waiting"], t))
    /\ rwMode' = [rwMode EXCEPT ![t] = "read"]
    /\ UNCHANGED rwWriteCalls
    /\ RWOthers

\* Caller t calls acquireWrite().
RWAcquireWrite(t) ==
    /\ ~rwSpin
    /\ rwPc[t] = "idle"
    /\ RWSet(RWTryAcquireWrite([RWCfg EXCEPT !.pc[t] = "waiting"], t))
    /\ rwMode' = [rwMode EXCEPT ![t] = "write"]
    /\ rwWriteCalls' = Append(rwWriteCalls, t)
    /\ RWOthers

\* The microtask that resumes "const release = await rwLock.acquire...()".
RWResume(t) ==
    /\ ~rwSpin
    /\ rwPc[t] = "granted"
    /\ rwPc' = [rwPc EXCEPT ![t] = "holding"]
    /\ UNCHANGED <<readers, writer, readQueue, writeQueue, rwMode, rwWaited,
                   rwSpin, rwWriteCalls>>
    /\ RWOthers

\* Reader t invokes its release closure, once.
RWReadRelease(t) ==
    /\ ~rwSpin
    /\ rwPc[t] = "holding"
    /\ rwMode[t] = "read"
    /\ RWSet(RWReleaseRead([RWCfg EXCEPT !.pc[t] = "idle", !.waited = @ \ {t}]))
    /\ rwMode' = [rwMode EXCEPT ![t] = "none"]
    /\ UNCHANGED rwWriteCalls
    /\ RWOthers

\* Writer t invokes its release closure, once.
RWWriteRelease(t) ==
    /\ ~rwSpin
    /\ rwPc[t] = "holding"
    /\ rwMode[t] = "write"
    /\ RWSet(RWReleaseWrite([RWCfg EXCEPT !.pc[t] = "idle", !.waited = @ \ {t}]))
    /\ rwMode' = [rwMode EXCEPT ![t] = "none"]
    /\ rwWriteCalls' = Remove(rwWriteCalls, t)
    /\ RWOthers

RWNext ==
    \E t \in RWCallers :
        \/ RWAcquireRead(t)
        \/ RWAcquireWrite(t)
        \/ RWResume(t)
        \/ RWReadRelease(t)
        \/ RWWriteRelease(t)

\* ------------------------------------------------------------ SimpleLock
\* A caller of SimpleLock is "idle", "sleeping" (its setTimeout is pending),
\* "woken" (the timer fired, the loop has not resumed yet), "acquired"
\* (acquire() set the flag and returned) or "holding" (its await resumed).
SLInit ==
    /\ slLocked = FALSE
    /\ slPc = [t \in SLCallers |-> "idle"]
    /\ slSlept = {}
    /\ slCalls = <<>>

SLCfg == [locked |-> slLocked, pc |-> slPc, slept |-> slSlept]

SLSet(c) ==
    /\ slLocked' = c.locked
    /\ slPc' = c.pc
    /\ slSlept' = c.slept

\* One test of "while (this.locked)": sleep again, or leave the loop and
\* set the flag in the same synchronous run.
SLWhile(c, t) ==
    IF c.locked
    THEN [c EXCEPT !.pc[t] = "sleeping", !.slept = @ \cup {t}]
    ELSE [c EXCEPT !.locked = TRUE, !.pc[t] = "acquired"]

\* Faulty variant: "if (this.locked) await sleep" - no second test after the sleep.
SLAfterSleepNoTest(c, t) == [c EXCEPT !.locked = TRUE, !.pc[t] = "acquired"]

\* The loop's back edge: after the await the condition is tested again.
SLAfterSleep(c, t) == SLWhile(c, t)

\* Faulty variant: only the holder's release(threadId) frees the lock.
SLReleaseFnHolderOnly(c, t) ==
    IF c.pc[t] = "holding" THEN [c EXCEPT !.locked = FALSE] ELSE c

\* SimpleLock.release(threadId)
SLReleaseFn(c, t) == [c EXCEPT !.locked = FALSE]

SLOthers == UNCHANGED <<qlVars, semVars, rwVars>>

\* Caller t calls acquire(t): the body runs up to its first await.
SLAcquire(t) ==
    /\ slPc[t] = "idle"
    /\ SLSet(SLWhile(SLCfg, t))
    /\ slCalls' = Append(slCalls, t)
    /\ SLOthers

\* The retry timer of sleepSimulation() expires.
SLTimer(t) ==
    /\ slPc[t] = "sleeping"
    /\ slPc' = [slPc EXCEPT ![t] = "woken"]
    /\ UNCHANGED <<slLocked, slSlept, slCalls>>
    /\ SLOthers

\* The microtask that resumes acquire() after "await this.sleepSimulation()".
SLWake(t) ==
    /\ slPc[t] = "woken"
    /\ SLSet(SLAfterSleep(SLCfg, t))
    /\ UNCHANGED slCalls
    /\ SLOthers

\* The microtask that resumes "await lock.acquire(threadId)".
SLResume(t) ==
    /\ slPc[t] = "acquired"
    /\ slPc' = [slPc EXCEPT ![t] = "holding"]
    /\ UNCHANGED <<slLocked, slSlept, slCalls>>
    /\ SLOthers

\* The holder calls release(t).
SLRelease(t) ==
    /\ slPc[t] = "holding"
    /\ SLSet([SLReleaseFn(SLCfg, t) EXCEPT !.pc[t] = "idle", !.slept = @ \ {t}])
    /\ slCalls' = Remove(slCalls, t)
    /\ SLOthers

\* release(t) is called although caller t does not hold the lock.
SLStrayRelease(t) ==
    /\ slPc[t] # "holding"
    /\ SLSet(SLReleaseFn(SLCfg, t))
    /\ UNCHANGED slCalls
    /\ SLOthers

SLNext ==
    \E t \in SLCallers :
        \/ SLAcquire(t)
        \/ SLTimer(t)
        \/ SLWake(t)
        \/ SLResume(t)
        \/ SLRelease(t)

\* The schedule of the starvation scenario: callers 1 and 2 only write, and
\* call acquireWrite() again whenever they are idle; the other callers only
\* read; a writer releases only once another writer is queued.
SteadyWriters == {1, 2}

RWSteadyWrite(t) == t \in SteadyWriters /\ RWAcquireWrite(t)
RWOtherRead(t) == t \notin SteadyWriters /\ RWAcquireRead(t)
RWOverlappedWriteRelease(t) == Len(writeQueue) > 0 /\ RWWriteRelease(t)

RWStarveNext ==
    \E t \in RWCallers :
        \/ RWSteadyWrite(t)
        \/ RWOtherRead(t)
        \/ RWResume(t)
        \/ RWReadRelease(t)
        \/ RWOverlappedWriteRelease(t)

\* QueueLock with release closures also invoked a second time.
QLMisuseNext == QLNext \/ QLReleaseAgain

\* SimpleLock with release() also called by callers that do not hold it.
SLMisuseNext == SLNext \/ \E t \in SLCallers : SLStrayRelease(t)

\* The schedule of the polling starvation scenario: the retries of caller 1
\* always land while the lock is held; the other callers keep calling.
SLDelayed == {1}

SLDelayedWake(t) == t \in SLDelayed /\ slLocked /\ SLWake(t)
SLPromptWake(t) == t \notin SLDelayed /\ SLWake(t)
SLOtherAcquire(t) == t \notin SLDelayed /\ SLAcquire(t)
SLDelayedAcquire(t) == t \in SLDelayed /\ SLAcquire(t)

SLStarveNext ==
    \E t \in SLCallers :
        \/ SLDelayedAcquire(t)
        \/ SLOtherAcquire(t)
        \/ SLTimer(t)
        \/ SLDelayedWake(t)
        \/ SLPromptWake(t)
        \/ SLResume(t)
        \/ SLRelease(t)

\* -------------------------------------------------------- specifications
Init == QLInit /\ SemInit /\ RWInit /\ SLInit

SpecQL == Init /\ [][QLNext]_vars
SpecSem == Init /\ [][SemNext]_vars
SpecRW == Init /\ [][RWNext]_vars
SpecSL == Init /\ [][SLNext]_vars

\* Every granted caller resumes (the microtask queue is drained) and every
\* holder invokes its release closure; nothing forces anybody to call acquire().
FairSpecQL ==
    /\ SpecQL
    /\ \A t \in QCallers : WF_vars(QLResume(t)) /\ WF_vars(QLRelease(t))

\* Every caller granted a permit resumes and invokes its release closure.
FairSpecSem ==
    /\ SpecSem
    /\ \A t \in SemCallers : WF_vars(SemResume(t)) /\ WF_vars(SemRelease(t))

\* Every granted reader and writer resumes and invokes its release closure.
FairSpecRW ==
    /\ SpecRW
    /\ \A t \in RWCallers :
          /\ WF_vars(RWResume(t))
          /\ WF_vars(RWReadRelease(t))
          /\ WF_vars(RWWriteRelease(t))

\* The starvation scenario: holders release as above, and the two writers
\* keep arriving.
StarveSpecRW ==
    /\ Init /\ [][RWStarveNext]_vars
    /\ \A t \in RWCallers :
          /\ WF_vars(RWResume(t))
          /\ WF_vars(RWReadRelease(t))
          /\ WF_vars(RWOverlappedWriteRelease(t))
          /\ WF_vars(RWSteadyWrite(t))


\* Timers expire, microtasks run and every holder calls release().
FairSpecSL ==
    /\ SpecSL
    /\ \A t \in SLCallers :
          /\ WF_vars(SLTimer(t))
          /\ WF_vars(SLWake(t))
          /\ WF_vars(SLResume(t))
          /\ WF_vars(SLRelease(t))

\* The polling starvation scenario, with the same fairness; the delayed
\* caller's retry happens again and again (when the lock is held), and the
\* other callers keep arriving.
StarveSpecSL ==
    /\ Init /\ [][SLStarveNext]_vars
    /\ \A t \in SLCallers :
          /\ WF_vars(SLTimer(t))
          /\ WF_vars(SLPromptWake(t))
          /\ SF_vars(SLDelayedWake(t))
          /\ WF_vars(SLResume(t))
          /\ WF_vars(SLRelease(t))
          /\ WF_vars(SLOtherAcquire(t))

MisuseSpecQL == Init /\ [][QLMisuseNext]_vars

MisuseSpecSL == Init /\ [][SLMisuseNext]_vars

\* ----------------------------------------------------------------- claims
QLHolders == {t \in QCallers : Granted(qlPc, t)}
SemHolders == {t \in SemCallers : Granted(semPc, t)}
\* k of "new SemaphoreLock(k)", once the constructor has returned
SemK == NumberValue(semArg)

\* C1: QueueLock mutual exclusion - in every reachable state at most one
\* release closure has been granted and not yet invoked.
C1_QLMutualExclusion == Cardinality(QLHolders) <= 1

\* A caller was handed the lock by a release while two others are queued.
C1_Witness ==
    \E t \in QCallers :
        /\ qlPc[t] = "holding"
        /\ t \in qlWaited
        /\ Len(qlQueue) >= 2

\* C2: QueueLock strict FIFO - a call is never granted while a call made
\* before it is still ungranted, so the grants come in the order of the
\* acquire() calls, for calls granted at once and for calls that waited.
C2_QLFifo ==
    \A i, j \in 1..Len(qlCalls) :
        (i < j /\ Granted(qlPc, qlCalls[j])) => Granted(qlPc, qlCalls[i])

\* All callers have a call outstanding, and the oldest of them holds the
\* lock after having waited in the queue.
C2_Witness ==
    /\ Len(qlCalls) = NumQCallers
    /\ qlCalls[1] \in qlWaited
    /\ Granted(qlPc, qlCalls[1])
    /\ \A i \in 2..Len(qlCalls) : qlPc[qlCalls[i]] = "waiting"

\* C3: semaphore bound - with new SemaphoreLock(k), at most k release
\* closures are granted and not yet invoked.
C3_SemBound == semStatus = "ok" => Cardinality(SemHolders) <= SemK

\* k = MaxPermits holders, one of them served from the queue, one waiter.
C3_Witness ==
    /\ semStatus = "ok"
    /\ SemK = MaxPermits
    /\ Cardinality(SemHolders) = SemK
    /\ \E t \in SemHolders : t \in semWaited
    /\ Len(semQueue) >= 1


\* C4: reader/writer exclusivity - writer = true and readers > 0 never hold
\* together, and at most one write closure is granted and not yet invoked.
C4_RWExclusive ==
    /\ ~(writer /\ readers > 0)
    /\ Cardinality({t \in RWCallers :
                       rwMode[t] = "write" /\ Granted(rwPc, t)}) <= 1

\* A writer that had to queue behind readers now holds the lock, while a
\* reader and another writer wait.
C4_Witness ==
    /\ writer
    /\ \E t \in RWCallers :
          rwMode[t] = "write" /\ rwPc[t] = "holding" /\ t \in rwWaited
    /\ Len(readQueue) >= 1
    /\ Len(writeQueue) >= 1

\* C5: writer preference - a read request that arrives while a writer is
\* active or queued is not granted at arrival (readers active or not), and
\* when a queued read request is granted, no writer is active or queued.
C5_WriterPreference ==
    [][\A t \in RWCallers :
          /\ (/\ rwPc[t] = "idle"
              /\ rwPc'[t] # "idle"
              /\ rwMode'[t] = "read"
              /\ (writer \/ Len(writeQueue) > 0))
             => rwPc'[t] = "waiting"
          /\ (rwMode[t] = "read" /\ rwPc[t] = "waiting" /\ rwPc'[t] = "granted")
             => (~writer' /\ Len(writeQueue') = 0)]_vars

\* A read request queued behind a writer has been granted, and a newer read
\* request waits behind a queued writer although readers are active.
C5_Witness ==
    \E t, u \in RWCallers :
        /\ rwMode[t] = "read" /\ Granted(rwPc, t) /\ t \in rwWaited
        /\ rwMode[u] = "read" /\ rwPc[u] = "waiting"
        /\ readers > 0
        /\ Len(writeQueue) > 0

\* C6: SimpleLock mutual exclusion - at most one caller has completed
\* acquire() and not yet called release(), also when several polling
\* callers wake up after the same release.
C6_SLMutualExclusion ==
    Cardinality({t \in SLCallers : slPc[t] \in {"acquired", "holding"}}) <= 1

\* A polling caller took the lock after its sleep while another polling
\* caller, whose timer has fired too, is about to test the flag.
C6_Witness ==
    \E t, u \in SLCallers :
        /\ slPc[t] = "acquired" /\ t \in slSlept
        /\ slPc[u] = "woken"

\* C7: semaphore FIFO among waiters - no call is granted a permit while a
\* call made before it is still waiting in the queue.
C7_SemFifo ==
    \A i, j \in 1..Len(semCalls) :
        (i < j /\ semPc[semCalls[i]] = "waiting")
            => ~Granted(semPc, semCalls[j])

\* A call that waited has been served while a call made after it still waits.
C7_Witness ==
    \E i, j \in 1..Len(semCalls) :
        /\ i < j
        /\ semCalls[i] \in semWaited
        /\ Granted(semPc, semCalls[i])
        /\ semPc[semCalls[j]] = "waiting"

\* v is one of the positive integers 1, 2, ...
IsPositiveInteger(v) == \E k \in 1..(MaxPermits + 1) : v.num = k * v.den

\* C8: construction validation - the constructor throws exactly for the
\* values that are not positive integers (then nobody ever acquires), and
\* for a positive integer k it yields an instance with permits = k.
C8_SemConstruction ==
    /\ semStatus = "threw" => (~IsPositiveInteger(semArg) /\ semCalls = <<>>)
    /\ semStatus = "ok" =>
          /\ IsPositiveInteger(semArg)
          /\ semCalls = <<>> => semPermits * semArg.den = semArg.num

\* new SemaphoreLock(2.5) has thrown.
C8_Witness == semStatus = "threw" /\ semArg = [num |-> 5, den |-> 2]

\* C9: the semaphore admits exactly k - until the first release, the first
\* k calls are granted (in the step of the call) and every later call is
\* pending; the first release grants the (k+1)-th call in the same step.
C9_SemAdmitsExactlyK ==
    /\ [](semStatus = "ok" /\ ~semReleases =>
            \A i \in 1..Len(semCalls) :
                IF i <= SemK
                THEN Granted(semPc, semCalls[i])
                ELSE semPc[semCalls[i]] = "waiting")
    /\ [][(~semReleases /\ semReleases' /\ Len(semCalls) > SemK)
            => semPc'[semCalls[SemK + 1]] = "granted"]_vars

\* After a release, a call that had been queued behind k = MaxPermits
\* holders is granted, and the semaphore is full again.
C9_Witness ==
    /\ semReleases
    /\ SemK = MaxPermits
    /\ Cardinality(SemHolders) = SemK
    /\ \E t \in SemCallers : semPc[t] = "granted" /\ t \in semWaited

\* C10: QueueLock prevents starvation - if every holder invokes its release
\* closure, every acquire() call that has to wait is eventually granted,
\* whatever acquire() calls the other callers keep making.
C10_QLNoStarvation ==
    \A t \in QCallers : (qlPc[t] = "waiting") ~> (qlPc[t] = "granted")

\* A call that waited has been granted while every other caller is queued.
C10_Witness ==
    \E t \in QCallers :
        /\ qlPc[t] = "granted"
        /\ t \in qlWaited
        /\ Len(qlQueue) = NumQCallers - 1


\* C11: reader starvation - in the schedule where two writers keep arriving
\* and each writer releases while another writer is queued, every holder
\* keeps releasing, the writers keep being granted, and a reader that is
\* queued is never granted.
C11_ReaderStarvation ==
    /\ [][\A t \in RWCallers :
            (rwMode[t] = "read" /\ rwPc[t] = "waiting")
                => rwPc'[t] = "waiting"]_vars
    /\ \A t \in RWCallers : (rwPc[t] = "holding") ~> (rwPc[t] = "idle")
    /\ \A t \in SteadyWriters : []<>(rwPc[t] = "granted")

\* A writer has been served from the write queue, past a queued reader.
C11_Witness ==
    /\ Len(readQueue) >= 1
    /\ \E t \in RWCallers :
          rwMode[t] = "write" /\ rwPc[t] = "holding" /\ t \in rwWaited

\* "Every queued reader is eventually granted": not a guarantee of the lock.
RWEveryReaderServed ==
    \A t \in RWCallers :
        (rwMode[t] = "read" /\ rwPc[t] = "waiting") ~> (rwPc[t] = "granted")


\* C12: shared read access - an acquireRead() call is granted in its own
\* step exactly when no writer is active and the write queue is empty,
\* however many readers are active; otherwise it is appended to the read
\* queue.  So two or more readers can be active together.
C12_SharedRead ==
    [][\A t \in RWCallers :
          (rwPc[t] = "idle" /\ rwPc'[t] # "idle" /\ rwMode'[t] = "read")
          => IF ~writer /\ Len(writeQueue) = 0
             THEN /\ rwPc'[t] = "granted"
                  /\ readers' = readers + 1
                  /\ readQueue' = readQueue
             ELSE /\ rwPc'[t] = "waiting"
                  /\ readers' = readers
                  /\ readQueue' = Append(readQueue, t)]_vars

\* Two readers are active together, both granted at their call.
C12_Witness ==
    /\ readers >= 2
    /\ \E t, u \in RWCallers :
          /\ t # u
          /\ rwMode[t] = "read" /\ Granted(rwPc, t) /\ t \notin rwWaited
          /\ rwMode[u] = "read" /\ Granted(rwPc, u) /\ u \notin rwWaited


SLPolling(t) == slPc[t] \in {"sleeping", "woken"}
SLHolds(t) == slPc[t] \in {"acquired", "holding"}

\* C13: SimpleLock gives no fairness - in the schedule where the retries of
\* one caller always land while the lock is held, every holder releases,
\* the lock keeps being acquired, the delayed caller keeps retrying, and
\* once it polls it never completes acquire().
C13_SLNoFairness ==
    /\ [][\A t \in SLDelayed : SLPolling(t) => SLPolling(t)']_vars
    /\ \A t \in SLCallers : SLHolds(t) ~> (slPc[t] = "idle")
    /\ []<>(\E t \in SLCallers : slPc[t] = "acquired")
    /\ \A t \in SLDelayed : (slPc[t] = "sleeping") ~> (slPc[t] = "woken")
    /\ \A t \in SLDelayed : (slPc[t] = "woken") ~> (slPc[t] = "sleeping")

\* A caller that started acquire() later holds the lock, taken at its call
\* or after a sleep, while the caller that started first is still polling.
C13_Witness ==
    \E i, j \in 1..Len(slCalls) :
        /\ i < j
        /\ SLPolling(slCalls[i])
        /\ SLHolds(slCalls[j])
        /\ slCalls[j] \in slSlept

\* "Every polling caller eventually acquires": not a guarantee of the lock.
SLEveryPollerServed ==
    \A t \in SLCallers : (slPc[t] = "sleeping") ~> (slPc[t] = "acquired")


\* C14: QueueLock direct handoff - a release with a non-empty queue ends
\* with the lock held again by the caller that was at the head, the queue
\* shorter by that entry; the lock is never free while the queue is
\* non-empty, and an acquire() arriving then is queued, at the tail.
C14_QLHandoff ==
    /\ [](Len(qlQueue) > 0 => qlLocked)
    /\ [][\A t \in QCallers :
            /\ (qlPc[t] = "holding" /\ qlPc'[t] = "idle" /\ Len(qlQueue) > 0)
               => /\ qlLocked'
                  /\ qlPc'[Head(qlQueue)] = "granted"
                  /\ qlQueue' = Tail(qlQueue)
                  /\ QLHolders' = {Head(qlQueue)}
            /\ (qlPc[t] = "idle" /\ qlPc'[t] # "idle" /\ Len(qlQueue) > 0)
               => /\ qlPc'[t] = "waiting"
                  /\ qlQueue' = Append(qlQueue, t)]_vars

\* The lock was handed to the head of the queue, a caller that arrived
\* afterwards is queued behind the remaining waiter.
C14_Witness ==
    \E t \in QCallers :
        /\ qlPc[t] = "granted"
        /\ t \in qlWaited
        /\ Len(qlQueue) >= 2
        /\ qlQueue[Len(qlQueue)] = qlCalls[Len(qlCalls)]


\* C15: semaphore permit accounting - with new SemaphoreLock(k), permits
\* equals k minus the number of release closures granted and not yet
\* invoked, hence 0 <= permits <= k.
C15_SemAccounting ==
    semStatus = "ok" =>
        /\ semPermits = SemK - Cardinality(SemHolders)
        /\ 0 <= semPermits
        /\ semPermits <= SemK

\* After releases, one permit of k = MaxPermits is out and one is free.
C15_Witness ==
    /\ semStatus = "ok"
    /\ semReleases
    /\ SemK = MaxPermits
    /\ semPermits = SemK - 1
    /\ Cardinality(SemHolders) = 1


\* C16: write-release policy - when a write closure is invoked, in that
\* step (a) with writers queued, exactly the head writer is granted and the
\* read side is untouched; (b) with no writer queued, every queued reader is
\* granted, the read queue ends empty, readers is their number and writer is
\* false.  The wake-up loop ends: no woken reader is queued again.
C16_WriteRelease ==
    [][\A t \in RWCallers :
          (rwMode[t] = "write" /\ rwPc[t] = "holding" /\ rwPc'[t] = "idle")
          => /\ ~rwSpin'
             /\ IF Len(writeQueue) > 0
                THEN /\ writer'
                     /\ writeQueue' = Tail(writeQueue)
                     /\ rwPc'[Head(writeQueue)] = "granted"
                     /\ \A u \in RWCallers \ {t, Head(writeQueue)} :
                           rwPc'[u] = rwPc[u]
                     /\ readQueue' = readQueue
                     /\ readers' = readers
                ELSE /\ ~writer'
                     /\ writeQueue' = <<>>
                     /\ readQueue' = <<>>
                     /\ readers' = Len(readQueue)
                     /\ \A i \in 1..Len(readQueue) :
                           rwPc'[readQueue[i]] = "granted"]_vars

\* A write release woke two queued readers at once.
C16_Witness ==
    /\ ~writer
    /\ readers >= 2
    /\ Cardinality({t \in RWCallers :
          rwMode[t] = "read" /\ rwPc[t] = "granted" /\ t \in rwWaited}) >= 2


\* C17: SimpleLock.release(id) is unconditional - in every state and for
\* every id it can be called, it leaves locked = false, the resulting lock
\* state does not depend on the id (a stranger's release frees the lock as the
\* holder's would), and on a free lock it changes nothing.
C17_SLReleaseUnconditional ==
    /\ [](\A t \in SLCallers :
            /\ ENABLED (SLRelease(t) \/ SLStrayRelease(t))
            /\ SLReleaseFn(SLCfg, t).locked = FALSE
            /\ \A u \in SLCallers :
                  SLReleaseFn(SLCfg, t).locked = SLReleaseFn(SLCfg, u).locked
            /\ ~slLocked => SLReleaseFn(SLCfg, t) = SLCfg)
    /\ [][\A t \in SLCallers :
            (SLRelease(t) \/ SLStrayRelease(t)) => ~slLocked']_vars

\* A caller that is not the holder released the lock under the holder.
C17_Witness ==
    /\ ~slLocked
    /\ \E t \in SLCallers : slPc[t] = "holding"


\* C18: a QueueLock release closure invoked a second time raises no error
\* and is not ignored - it makes the transition a first invocation makes
\* (locked = false, then the head of the queue, if any, is granted),
\* whoever holds the lock at that moment.
C18_QLRepeatedRelease ==
    qlReleases =>
        LET c == QLReleaseFnAgain(QLCfg) IN
        /\ ENABLED QLReleaseAgain
        /\ c = QLReleaseFn(QLCfg)
        /\ qlLocked => c # QLCfg
        /\ IF Len(qlQueue) > 0
           THEN /\ c.locked
                /\ c.queue = Tail(qlQueue)
                /\ c.pc = [qlPc EXCEPT ![Head(qlQueue)] = "granted"]
           ELSE /\ ~c.locked
                /\ c.queue = <<>>
                /\ c.pc = qlPc

\* A second invocation freed the lock under its holder and a second caller
\* was granted it: two callers hold the lock.
C18_Witness ==
    /\ qlReleases
    /\ Cardinality(QLHolders) >= 2


\* C19: semaphore waiters are served - if every caller granted a permit
\* invokes its release closure (once), every queued acquire() call is
\* eventually granted, and a queued call is granted only in a step in which
\* a holder invokes its release closure.
C19_SemWaitersServed ==
    /\ \A t \in SemCallers : (semPc[t] = "waiting") ~> (semPc[t] = "granted")
    /\ [][\A t \in SemCallers :
            (semPc[t] = "waiting" /\ semPc'[t] = "granted")
            => /\ t = Head(semQueue)
               /\ \E u \in SemCallers : semPc[u] = "holding" /\ semPc'[u] = "idle"]_vars

\* A queued call has been granted by a release while MaxPermits - 1 other
\* permits are out and another call is still queued.
C19_Witness ==
    /\ SemK = MaxPermits
    /\ Len(semQueue) > 0
    /\ \E t \in SemCallers : semPc[t] = "granted" /\ t \in semWaited


\* C20: no stranded waiter in ReadWriteLock - in every reachable state a
\* queued writer has a writer or readers ahead of it whose release will run
\* it, and a queued reader has a writer or a queued writer ahead of it; no
\* request is queued while the lock is idle (no writer, no readers).
C20_RWNoStrandedWaiter ==
    /\ Len(writeQueue) > 0 => (writer \/ readers > 0)
    /\ Len(readQueue) > 0 => (writer \/ Len(writeQueue) > 0)
    /\ (~writer /\ readers = 0) => (Len(writeQueue) = 0 /\ Len(readQueue) = 0)

\* Readers are active, no writer is, and both a writer and a reader are
\* queued behind them.
C20_Witness ==
    /\ ~writer
    /\ readers > 0
    /\ Len(writeQueue) > 0
    /\ Len(readQueue) > 0


\* C21: no idle permit while someone waits - in every reachable state of a
\* constructed semaphore, a non-empty wait queue implies permits = 0.
C21_SemNoIdlePermit ==
    (semStatus = "ok" /\ Len(semQueue) > 0) => semPermits = 0

\* After a release served the head of the queue, calls are still queued
\* behind MaxPermits holders and no permit is left.
C21_Witness ==
    /\ semReleases
    /\ SemK = MaxPermits
    /\ Len(semQueue) > 0
    /\ semPermits = 0
    /\ \E t \in SemCallers : Granted(semPc, t) /\ t \in semWaited


\* C22: writers are served in call order - of two outstanding acquireWrite()
\* calls the later is never granted while the earlier still waits, and an
\* acquireWrite() call arriving while writers are queued is queued behind
\* them.
C22_WritersInCallOrder ==
    /\ [](\A i, j \in 1..Len(rwWriteCalls) :
            (i < j /\ rwPc[rwWriteCalls[i]] = "waiting")
                => rwPc[rwWriteCalls[j]] = "waiting")
    /\ [][\A t \in RWCallers :
            (Len(writeQueue) > 0 /\ rwPc[t] = "idle" /\ rwPc'[t] # "idle"
                /\ rwMode'[t] = "write")
            => /\ rwPc'[t] = "waiting"
               /\ writeQueue' = Append(writeQueue, t)]_vars

\* The earlier of two queued writers has been granted the lock while the
\* later one still waits.
C22_Witness ==
    \E i, j \in 1..Len(rwWriteCalls) :
        /\ i < j
        /\ rwWriteCalls[i] \in rwWaited
        /\ Granted(rwPc, rwWriteCalls[i])
        /\ rwWriteCalls[j] \in rwWaited
        /\ rwPc[rwWriteCalls[j]] = "waiting"
        /\ Len(writeQueue) >= 2


\* C23: writers never starve - if every granted reader and writer invokes
\* its release closure, every acquireWrite() call that has to wait is
\* eventually granted, whatever acquireRead() and acquireWrite() calls keep
\* arriving.
C23_WritersNeverStarve ==
    \A t \in RWCallers :
        (rwMode[t] = "write" /\ rwPc[t] = "waiting") ~> (rwPc[t] = "granted")

\* A writer that waited has been granted while two readers that arrived
\* meanwhile and another writer are queued.
C23_Witness ==
    \E t \in RWCallers :
        /\ rwMode[t] = "write"
        /\ rwPc[t] = "granted"
        /\ t \in rwWaited
        /\ Len(readQueue) >= 2
        /\ Len(writeQueue) >= 1

====
